---- MODULE Spec2Model ----
(***************************************************************************)
(* Model of the bounded-concurrency job scheduler, class JobQueue of       *)
(* packages/ffmpeg/src/index.ts.                                           *)
(*                                                                         *)
(* A job is one enqueued QueueItem.  Jobs are numbered 1..MaxJobs in the   *)
(* order in which they are enqueued; jobId[j] is the item's id, the key    *)
(* of the running map and of the canceled set.  The AbortController that   *)
(* run() creates for job j is identified with j.                           *)
(*                                                                         *)
(* JavaScript runs every public method and every promise callback to       *)
(* completion, so each of them is one action.  The promise chain of run()  *)
(* is  worker(..).then(f).catch(g).finally(h) :  the worker's promise      *)
(* settles and the then/catch callback runs (Settle), the finally callback *)
(* runs in a later microtask (Finally); other callbacks and calls of the   *)
(* public methods may run in between.                                      *)
(*                                                                         *)
(* The second part models convertAssetWithFfmpeg and runFfmpeg of the same *)
(* file as the worker of job 1 (SpecWorker): the child process, its        *)
(* stderr, exit and error events, the abort listener and its timer.        *)
(***************************************************************************)
EXTENDS Integers, Sequences, FiniteSets, TLC

\* ---- bounds of the model ------------------------------------------------
MaxJobs == 3
MaxConcurrency == 2

Jobs == 1..MaxJobs
Ids == 1..MaxJobs
\* the arguments of the constructor and of setConcurrency: integers, among
\* them 0 and a negative one
SetInputs == (-1)..MaxConcurrency
\* How a worker's promise settles.  A rejection carries any value:
\*   "rejectedAbort"      an Error whose name is "AbortError"
\*   "rejectedError"      an Error with another name
\*   "rejectedAbortLike"  a value named "AbortError" that is not an Error
\*   "rejectedValue"      any other value that is not an Error
Outcomes ==
  {"resolved", "rejectedAbort", "rejectedError", "rejectedAbortLike", "rejectedValue"}

VARIABLES
  pending,      \* this.pending: sequence of jobs (QueueItems), head first
  running,      \* this.running: id -> controller (the job that owns it), 0 = no entry
  canceled,     \* this.canceled: set of ids
  concurrency,  \* this.concurrency
  aborted,      \* controllers of unfinished jobs on which abort() has been called
  events,       \* the events passed to emit() by the latest call or callback, in order
  hist,         \* per job: the queued, start, done, error and canceled events emitted for it so far, in order
  started,      \* the jobs for which start was emitted, in emission order
  st,           \* per job: where it is in its lifecycle
  jobId,        \* per job: the id of its QueueItem, 0 before it is enqueued
  request,      \* the ConvertRequest of the conversion that runs as the worker of job 1
  conv,         \* the activation of convertAssetWithFfmpeg for that request
  child         \* the activation of runFfmpeg the conversion is awaiting, or awaited last

queueVars == <<pending, running, canceled, concurrency, aborted, events, hist, started, st, jobId>>

workerVars == <<request, conv, child>>

vars == <<pending, running, canceled, concurrency, aborted, events, hist, started, st, jobId,
          request, conv, child>>

\* st[j] is one of
\*   "new"              not enqueued yet
\*   "pending"          in this.pending
\*   "running"          run(item) was called, the worker's promise is pending
\*   "handled"          the then/catch callback has run, the finally callback has not
\*   "released"         the finally callback has run
\*   "canceledPending"  removed from this.pending by cancel(id)
\*   "canceledAll"      removed from this.pending by cancelAll() after its canceled event
\*   "dropped"          removed from this.pending by cancelAll() without any event

\* ---- the queue as a value ----------------------------------------------
\* the queue at the beginning of a call or callback: nothing emitted yet.
\* returned is the value the call returns to its caller, <<>> for undefined;
\* seen is the order in which the listener registered last has received the
\* events of the call, each named by its position in events.
Q ==
  [pending |-> pending, running |-> running, canceled |-> canceled,
   concurrency |-> concurrency, aborted |-> aborted, events |-> <<>>,
   hist |-> hist, started |-> started, st |-> st, jobId |-> jobId,
   returned |-> <<>>, seen |-> <<>>]

\* the queue after a call or callback
CommitQueue(result) ==
  \E q \in {result} :
    /\ pending' = q.pending
    /\ running' = q.running
    /\ canceled' = q.canceled
    /\ concurrency' = q.concurrency
    /\ aborted' = q.aborted
    /\ events' = q.events
    /\ hist' = q.hist
    /\ started' = q.started
    /\ st' = q.st
    /\ jobId' = q.jobId

\* a call or callback of the queue whose worker is not the conversion pipeline
Commit(result) == CommitQueue(result) /\ UNCHANGED workerVars

RunningIds(q) == {i \in Ids : q.running[i] # 0}

RunningSize(q) == Cardinality(RunningIds(q))

\* the constructor's Math.max(1, concurrency) on an integer argument
InitialConcurrency(n) == IF n < 1 THEN 1 ELSE n

\* setConcurrency without Math.max
ClampNothing(n) == n

\* Math.max(1, Math.floor(next)) on an integer argument
ClampConcurrency(n) == IF n < 1 THEN 1 ELSE n

\* emit(event): the event is delivered to the listeners.  np and nr record the
\* length of pending and the size of running at the moment of the emission.
\* data is the result of a done event and the message of an error event.
\* emitter.emit calls the listeners one after the other, in the order of their
\* registration; here no listener calls the queue from its callback, so the
\* last listener receives the event before anything else is emitted.
EmitEvent(q, type, j, data) ==
  [q EXCEPT !.events = Append(@, [type |-> type, job |-> j, data |-> data,
                                  np |-> Len(q.pending), nr |-> RunningSize(q)]),
            !.seen = Append(@, Len(q.events) + 1),
            !.hist = [k \in Jobs |-> IF k = j /\ type # "progress"
                                        THEN Append(q.hist[k], type) ELSE q.hist[k]],
            !.started = IF type = "start" THEN Append(@, j) ELSE @]

\* an event without result and message
Emit(q, type, j) == EmitEvent(q, type, j, "none")

\* emitIdleIfNeeded that looks at the pending list only
emitIdleIgnoringRunning(q) ==
  IF Len(q.pending) = 0 THEN Emit(q, "idle", 0) ELSE q

emitIdleIfNeeded(q) ==
  IF Len(q.pending) = 0 /\ RunningSize(q) = 0 THEN Emit(q, "idle", 0) ELSE q

\* run(item): the controller is stored under the item's id, start is emitted
\* and the worker is invoked; its promise is pending afterwards.
run(q, j) ==
  Emit([q EXCEPT !.running[q.jobId[j]] = j, !.st[j] = "running"], "start", j)

\* drain that admits while running.size <= concurrency
RECURSIVE drainOffByOne(_)
drainOffByOne(q) ==
  IF RunningSize(q) <= q.concurrency /\ Len(q.pending) > 0
    THEN drainOffByOne(run([q EXCEPT !.pending = Tail(@)], Head(q.pending)))
    ELSE emitIdleIfNeeded(q)

\* drain that takes the newest pending item (pop instead of shift)
RECURSIVE drainNewestFirst(_)
drainNewestFirst(q) ==
  IF RunningSize(q) < q.concurrency /\ Len(q.pending) > 0
    THEN drainNewestFirst(run([q EXCEPT !.pending = SubSeq(@, 1, Len(@) - 1)],
                              q.pending[Len(q.pending)]))
    ELSE emitIdleIfNeeded(q)

RECURSIVE drain(_)
drain(q) ==
  IF RunningSize(q) < q.concurrency /\ Len(q.pending) > 0
    THEN drain(run([q EXCEPT !.pending = Tail(@)], Head(q.pending)))
    ELSE emitIdleIfNeeded(q)

\* the for loop of enqueue(items): push, emit queued
RECURSIVE enqueueLoop(_, _)
enqueueLoop(q, items) ==
  IF items = <<>> THEN q
  ELSE LET j == Head(items)
           q1 == [q EXCEPT !.pending = Append(@, j), !.st[j] = "pending"]
       IN enqueueLoop(Emit(q1, "queued", j), Tail(items))

\* enqueue that admits work after the first item already
enqueueDrainFirst(q, items) ==
  IF items = <<>> THEN drain(q)
  ELSE drain(enqueueLoop(drain(enqueueLoop(q, <<Head(items)>>)), Tail(items)))

enqueue(q, items) == drain(enqueueLoop(q, items))

\* setConcurrency that cancels every running job when the new limit is below
\* the number of running jobs
setConcurrencyPreempting(q, n) ==
  LET q1 == [q EXCEPT !.concurrency = ClampConcurrency(n)]
  IN IF RunningSize(q) > ClampConcurrency(n)
       THEN drain([q1 EXCEPT !.canceled = @ \cup RunningIds(q),
                             !.aborted = @ \cup {q.running[i] : i \in RunningIds(q)}])
       ELSE drain(q1)

\* the value of this.concurrency after drain is what the call returns
setConcurrency(q, n) ==
  LET q1 == drain([q EXCEPT !.concurrency = ClampConcurrency(n)])
  IN [q1 EXCEPT !.returned = <<q1.concurrency>>]

\* pending.findIndex((item) => item.id === jobId), 0 when there is none
PendingIndex(q, id) ==
  IF \E k \in 1..Len(q.pending) : q.jobId[q.pending[k]] = id
    THEN CHOOSE k \in 1..Len(q.pending) :
           /\ q.jobId[q.pending[k]] = id
           /\ \A m \in 1..(k - 1) : q.jobId[q.pending[m]] # id
    ELSE 0

\* pending.splice(k, 1)
Splice(s, k) == SubSeq(s, 1, k - 1) \o SubSeq(s, k + 1, Len(s))

\* cancel that leaves the canceled item in the pending list
cancelWithoutSplice(q, id) ==
  LET k == PendingIndex(q, id) IN
  IF k > 0
    THEN LET j == q.pending[k]
             q1 == [q EXCEPT !.canceled = @ \cup {id},
                             !.st[j] = "canceledPending"]
         IN emitIdleIfNeeded(Emit(q1, "canceled", j))
    ELSE IF q.running[id] # 0
      THEN [q EXCEPT !.canceled = @ \cup {id}, !.aborted = @ \cup {q.running[id]}]
      ELSE q

\* cancel with one AbortController shared by all running jobs
cancelSharedController(q, id) ==
  LET k == PendingIndex(q, id) IN
  IF k > 0
    THEN LET j == q.pending[k]
             q1 == [q EXCEPT !.pending = Splice(@, k),
                             !.canceled = @ \cup {id},
                             !.st[j] = "canceledPending"]
         IN emitIdleIfNeeded(Emit(q1, "canceled", j))
    ELSE IF q.running[id] # 0
      THEN [q EXCEPT !.canceled = @ \cup {id},
                     !.aborted = @ \cup {q.running[i] : i \in RunningIds(q)}]
      ELSE q

\* cancel that marks an id it finds neither pending nor running
cancelMarksUnknown(q, id) ==
  LET k == PendingIndex(q, id) IN
  IF k > 0
    THEN LET j == q.pending[k]
             q1 == [q EXCEPT !.pending = Splice(@, k),
                             !.canceled = @ \cup {id},
                             !.st[j] = "canceledPending"]
         IN emitIdleIfNeeded(Emit(q1, "canceled", j))
    ELSE IF q.running[id] # 0
      THEN [q EXCEPT !.canceled = @ \cup {id}, !.aborted = @ \cup {q.running[id]}]
      ELSE [q EXCEPT !.canceled = @ \cup {id}]

cancel(q, id) ==
  LET k == PendingIndex(q, id) IN
  IF k > 0
    THEN LET j == q.pending[k]
             q1 == [q EXCEPT !.pending = Splice(@, k),
                             !.canceled = @ \cup {id},
                             !.st[j] = "canceledPending"]
         IN emitIdleIfNeeded(Emit(q1, "canceled", j))
    ELSE IF q.running[id] # 0
      THEN [q EXCEPT !.canceled = @ \cup {id}, !.aborted = @ \cup {q.running[id]}]
      ELSE q

\* ---- listeners ---------------------------------------------------------
\* What a listener does synchronously inside its callback for a canceled
\* event delivered by cancelAll: nothing, enqueue one new item, or
\* setConcurrency(n).  reacts[i] is its reaction in step i of the loop; it
\* reacts to the items that were pending when cancelAll was called.
NoReaction == [kind |-> "none", n |-> 0]

EnqueueReaction == [kind |-> "enqueue", n |-> 0]

Reactions ==
  {NoReaction, EnqueueReaction} \cup {[kind |-> "set", n |-> n] : n \in 1..MaxConcurrency}

NewJobs(q) == {j \in Jobs : q.st[j] = "new"}

\* the next item a caller enqueues, with an id that was never used
FreshItems(q, k) ==
  LET first == MaxJobs - Cardinality(NewJobs(q)) + 1
  IN [m \in 1..k |-> first + m - 1]

WithFreshIds(q, items) ==
  [q EXCEPT !.jobId = [j \in Jobs |-> IF \E m \in 1..Len(items) : items[m] = j
                                        THEN j ELSE q.jobId[j]]]

Listener(q, r) ==
  IF r.kind = "enqueue" /\ NewJobs(q) # {}
    THEN enqueue(WithFreshIds(q, FreshItems(q, 1)), FreshItems(q, 1))
  ELSE IF r.kind = "set"
    THEN [setConcurrency(q, r.n) EXCEPT !.returned = <<>>]
    ELSE q

\* emitter.emit with two listeners: it calls the listener registered first,
\* which reacts with r inside its callback, and when that callback has
\* returned it calls the listener registered last, which only observes.  The
\* events the reaction emits are delivered to both listeners inside the
\* first listener's callback.
EmitReentrant(q, type, j, r) ==
  LET emitted == Emit(q, type, j)
      inFirst == Listener([emitted EXCEPT !.seen = q.seen], r)
  IN [inFirst EXCEPT !.seen = Append(@, Len(emitted.events))]

HasEvent(q, type, j) ==
  \E k \in 1..Len(q.hist[j]) : q.hist[j][k] = type

\* for (const item of this.pending) { canceled.add; emit canceled }: the array
\* iterator reads pending[i] of the array as it is when step i begins.
RECURSIVE cancelAllLoop(_, _, _)
cancelAllLoop(q, i, reacts) ==
  IF i > Len(q.pending) \/ i > MaxJobs THEN q
  ELSE LET j == q.pending[i]
           q1 == [q EXCEPT !.canceled = @ \cup {q.jobId[j]}]
       IN cancelAllLoop(EmitReentrant(q1, "canceled", j, reacts[i]), i + 1, reacts)

\* pending.length = 0: the items still in the array leave the queue; an item
\* the loop never visited leaves it without any event ("dropped").
Truncate(q) ==
  [q EXCEPT !.pending = <<>>,
            !.st = [j \in Jobs |->
                      IF \E k \in 1..Len(q.pending) : q.pending[k] = j
                        THEN (IF HasEvent(q, "canceled", j) THEN "canceledAll" ELSE "dropped")
                        ELSE q.st[j]]]

\* for (const [jobId, controller] of this.running.entries())
AbortRunning(q) ==
  [q EXCEPT !.canceled = @ \cup RunningIds(q),
            !.aborted = @ \cup {q.running[i] : i \in RunningIds(q)}]

cancelAll(q, reacts) ==
  emitIdleIfNeeded(AbortRunning(Truncate(cancelAllLoop(q, 1, reacts))))


\* ---- the worker's state before it is called -----------------------------
\* no runFfmpeg call has been made: no child process, no promise
NoChild ==
  [name |-> "none",         \* which invocation: "primary", "spritesheet", "alpha"
   proc |-> "none",         \* the process: "none", "running", "exited", "spawnFailed"
   killed |-> FALSE,        \* child.killed
   sigterm |-> FALSE,       \* SIGTERM has been sent to the process
   sigkill |-> FALSE,       \* SIGKILL has been sent to the process
   timer |-> "off",         \* the setTimeout of onAbort: "off", "set", "fired"
   listening |-> FALSE,     \* onAbort is registered on the signal
   settled |-> FALSE,       \* the settled flag of complete
   promise |-> "pending",   \* "pending", "resolved", "rejectedAbort", "rejectedError"
   by |-> "none",           \* what settled the promise: "precheck", "error", "exit"
   abortedThen |-> FALSE,   \* signal.aborted at the moment the promise settled
   exit |-> <<>>,           \* the (code, signal) of the exit event, once emitted
   stderrBuffer |-> <<>>]   \* the unterminated line held back by the data handler

\* convertAssetWithFfmpeg has not been called
NoConversion ==
  [pc |-> "idle",           \* the await the pipeline is suspended at, or how it ended
   outputFormat |-> "none",
   durationSeconds |-> 0,
   filterBuilt |-> FALSE,   \* buildFilterSpec has been called
   copied |-> FALSE,        \* fs.copyFile has copied the input to primaryPath
   written |-> {},          \* the files written by fs.writeFile
   spawned |-> <<>>,        \* the invocations for which spawn was called, in order
   exits |-> <<>>,          \* the exit of each spawned invocation that has exited, in order
   progress |-> <<>>,       \* the values passed to onProgress, in hundredths, in order
   printed |-> 0,           \* the stderr chunks received so far
   stderrOpen |-> FALSE,    \* the primary's stderr is still open after its exit event
   extras |-> <<>>,         \* the extras array
   outcome |-> "pending",   \* how the returned promise settled (Outcomes), or "pending"
   result |-> <<>>]         \* the extras of the returned JobOutput: <<>> is undefined

NoRequest ==
  [type |-> "none", outputFormat |-> "unset", spritesheet |-> FALSE, alphaMask |-> FALSE]

\* The worker of the queue's own specifications is any function that returns
\* a promise: Settle is the settlement of that promise, and the state of the
\* conversion pipeline is not used.
Unused == <<>>

\* ---- initial state: new JobQueue(worker, concurrency) -------------------
Init ==
  /\ request = Unused
  /\ conv = Unused
  /\ child = Unused
  /\ pending = <<>>
  /\ running = [i \in Ids |-> 0]
  /\ canceled = {}
  /\ concurrency \in {InitialConcurrency(n) : n \in SetInputs}
  /\ aborted = {}
  /\ events = <<>>
  /\ hist = [j \in Jobs |-> <<>>]
  /\ started = <<>>
  /\ st = [j \in Jobs |-> "new"]
  /\ jobId = [j \in Jobs |-> 0]

\* ---- actions ------------------------------------------------------------
\* enqueue(items) with a batch of k items whose ids were never used before;
\* k = 0 is enqueue([])
EnqueueBatch(k) ==
  /\ k <= Cardinality(NewJobs(Q))
  /\ Commit(enqueue(WithFreshIds(Q, FreshItems(Q, k)), FreshItems(Q, k)))

Enqueue == \E k \in 0..MaxJobs : EnqueueBatch(k)

SetConcurrencyTo(n) ==
  /\ n \in SetInputs
  /\ Commit(setConcurrency(Q, n))

SetConcurrency == \E n \in SetInputs : SetConcurrencyTo(n)

\* cancel(id) with any id, enqueued at some time or never
CancelId(id) ==
  /\ id \in Ids
  /\ Commit(cancel(Q, id))

Cancel == \E id \in Ids : CancelId(id)

\* the listener does nothing in the steps after those of reacts
Padded(reacts) ==
  [i \in 1..MaxJobs |-> IF i \in DOMAIN reacts THEN reacts[i] ELSE NoReaction]

\* cancelAll() with listeners that only observe
CancelAll ==
  \E reacts \in {[i \in 1..MaxJobs |-> NoReaction]} : Commit(cancelAll(Q, reacts))

\* cancelAll() with a listener that calls enqueue or setConcurrency from
\* inside a canceled callback
CancelAllReentrant ==
  \E reacts \in [1..Len(pending) -> Reactions] :
    /\ \E i \in 1..Len(pending) : reacts[i] # NoReaction
    /\ Commit(cancelAll(Q, Padded(reacts)))

\* cancelAll() with a listener that calls enqueue from inside a canceled callback
CancelAllEnqueuing ==
  \E reacts \in [1..Len(pending) -> {NoReaction, EnqueueReaction}] :
    /\ \E i \in 1..Len(pending) : reacts[i] # NoReaction
    /\ Commit(cancelAll(Q, Padded(reacts)))

\* the worker calls reportProgress
ReportProgress(j) ==
  /\ st[j] = "running"
  /\ Commit(Emit(Q, "progress", j))

Progress == \E j \in Jobs : ReportProgress(j)

\* the value a resolved worker's promise carries
ResultOf(outcome) == "result"

\* error instanceof Error
InstanceOfError(outcome) == outcome \in {"rejectedAbort", "rejectedError"}

\* error.name (undefined is "none")
NameOf(outcome) ==
  CASE outcome \in {"rejectedAbort", "rejectedAbortLike"} -> "AbortError"
    [] outcome = "rejectedError" -> "Error"
    [] OTHER -> "none"

\* error.message: every rejection value of the model except the resolved
\* outcome has a message property
MessageOf(outcome) == "message"

\* isAbortError that looks at the name only
isAbortErrorByName(outcome) == NameOf(outcome) = "AbortError"

isAbortError(outcome) == InstanceOfError(outcome) /\ NameOf(outcome) = "AbortError"

\* error instanceof Error ? error.message : "Unknown queue error"
Message(outcome) ==
  IF InstanceOfError(outcome) THEN MessageOf(outcome) ELSE "Unknown queue error"

\* the callback of .then (outcome "resolved") or of .catch (a rejection) on the
\* worker's promise
\* then/catch callbacks that do not look at the canceled set
settleIgnoringMarker(q, j, outcome) ==
  LET q1 == [q EXCEPT !.st[j] = "handled"]
  IN IF outcome = "resolved"
       THEN EmitEvent(q1, "done", j, ResultOf(outcome))
       ELSE (IF isAbortError(outcome)
               THEN Emit(q1, "canceled", j)
               ELSE EmitEvent(q1, "error", j, Message(outcome)))

settle(q, j, outcome) ==
  LET marked == q.jobId[j] \in q.canceled
      q1 == [q EXCEPT !.st[j] = "handled"]
  IN IF outcome = "resolved"
       THEN (IF marked THEN q1 ELSE EmitEvent(q1, "done", j, ResultOf(outcome)))
       ELSE (IF marked \/ isAbortError(outcome)
               THEN Emit(q1, "canceled", j)
               ELSE EmitEvent(q1, "error", j, Message(outcome)))

\* The worker's promise settles and its then/catch callback runs.  The
\* settlement itself changes nothing of the queue, so a call that runs between
\* the two is a call that runs before this step.
SettleJob(j, outcome) ==
  /\ st[j] = "running"
  /\ Commit(settle(Q, j, outcome))

Settle == \E j \in Jobs, outcome \in Outcomes : SettleJob(j, outcome)

\* a finally callback that frees the slot without calling drain
finallyWithoutDrain(q, j) ==
  [q EXCEPT !.running[q.jobId[j]] = 0,
            !.aborted = @ \ {j},
            !.canceled = @ \ {q.jobId[j]},
            !.st[j] = "released"]

\* the callback of .finally
finally(q, j) ==
  drain([q EXCEPT !.running[q.jobId[j]] = 0,
                  !.aborted = @ \ {j},
                  !.canceled = @ \ {q.jobId[j]},
                  !.st[j] = "released"])

FinallyJob(j) ==
  /\ st[j] = "handled"
  /\ Commit(finally(Q, j))

Finally == \E j \in Jobs : FinallyJob(j)

TerminalTypes == {"done", "error", "canceled"}

HasTerminal(q, j) == \E k \in 1..Len(q.hist[j]) : q.hist[j][k] \in TerminalTypes

\* the ids a caller holds whose jobs have all received their terminal event
ReusableIds(q) ==
  {i \in Ids : /\ \E j \in Jobs : q.jobId[j] = i
               /\ \A j \in Jobs : q.jobId[j] = i => HasTerminal(q, j)}

\* enqueue([item]) with the id of an earlier job whose terminal event has been
\* emitted
ReenqueueId(id) ==
  /\ id \in ReusableIds(Q)
  /\ NewJobs(Q) # {}
  /\ LET items == FreshItems(Q, 1)
     IN Commit(enqueue([Q EXCEPT !.jobId[items[1]] = id], items))

Reenqueue == \E id \in Ids : ReenqueueId(id)

\* ---- specifications ------------------------------------------------------
\* listeners only observe; every id is used once
Next ==
  \/ Enqueue
  \/ SetConcurrency
  \/ Cancel
  \/ CancelAll
  \/ Progress
  \/ Settle
  \/ Finally

Spec == Init /\ [][Next]_vars

\* the concurrency limit is the one given to the constructor
NextFixed ==
  \/ Enqueue
  \/ Cancel
  \/ CancelAll
  \/ CancelAllEnqueuing
  \/ Progress
  \/ Settle
  \/ Finally

SpecFixed == Init /\ [][NextFixed]_vars

\* a listener may call enqueue or setConcurrency while cancelAll delivers canceled
NextReentrant ==
  \/ Enqueue
  \/ SetConcurrency
  \/ Cancel
  \/ CancelAll
  \/ CancelAllReentrant
  \/ Progress
  \/ Settle
  \/ Finally

SpecReentrant == Init /\ [][NextReentrant]_vars

\* an id is enqueued again after the terminal event of its earlier job
NextReuse ==
  \/ Enqueue
  \/ Reenqueue
  \/ Cancel
  \/ CancelAll
  \/ Settle
  \/ Finally

SpecReuse == Init /\ [][NextReuse]_vars

\* ==== the conversion pipeline as the worker of job 1 ======================
\* The applications construct the queue with a worker that calls
\* convertAssetWithFfmpeg with the job's signal and reportProgress as
\* onProgress.  Here the queue has run job 1, its only job, and the pipeline
\* is the activation of that worker.  signal.aborted is "the controller of
\* job 1 is in aborted".
\*
\* Every callback (an fs promise's continuation, a listener of the child, the
\* abort listener, the timer) runs to completion together with the microtasks
\* it schedules: a promise settled by a callback resumes the awaiting pipeline
\* and, when the pipeline itself settles, the queue's then/catch callback,
\* before any other event is handled.  The queue's finally callback stays a
\* step of its own as in the queue's model.
\*
\* Progress values are counted in hundredths.

\* ---- bounds and inputs of the pipeline ----------------------------------
\* the number of stderr chunks the tool's processes deliver during one conversion
MaxLines == 2

\* 0.99 of the progress clamp, 0.1 reported before an image starts, 1 at the end
ProgressCap == 99
ProgressStarted == 10
ProgressDone == 100

PipelineJob == 1

AssetTypes == {"image", "svg", "video"}

\* config.outputFormat; "unset" is undefined
OutputFormats == {"unset", "png", "svg", "mp4", "webm"}

Requests ==
  [type : AssetTypes, outputFormat : OutputFormats, spritesheet : BOOLEAN, alphaMask : BOOLEAN]

\* the results of probeDurationSeconds(..).catch(() => 0), in seconds: 0 when
\* ffprobe fails or prints no positive number
Durations == {0, 2}

\* The lines the tool prints on stderr.  <<"out_time_ms", n>> is the line
\* "out_time_ms=" followed by the decimal numeral of n * 1000000 (with its
\* minus sign when n < 0); <<"frame", n>> is the line "frame=n".
Lines == {<<"out_time_ms", n>> : n \in {-1, 1, 3}} \cup {<<"frame", 1>>}

\* the (code, signal) of a child's exit event; <<>> is null
Exits ==
  {[code |-> <<0>>, signal |-> <<>>], [code |-> <<1>>, signal |-> <<>>],
   [code |-> <<>>, signal |-> <<"SIGTERM">>]}

\* ---- pure functions -------------------------------------------------------
\* abortError(): an Error named "AbortError"
abortError == "rejectedAbort"

\* formatOutputByType that returns whatever format is configured
formatOutputAsConfigured(type, outputFormat) ==
  IF outputFormat = "unset"
    THEN (IF type = "video" THEN "mp4" ELSE "png")
    ELSE outputFormat

formatOutputByType(type, outputFormat) ==
  IF type = "video"
    THEN (IF outputFormat = "webm" THEN "webm" ELSE "mp4")
    ELSE IF type = "svg" /\ outputFormat = "svg"
      THEN "svg"
      ELSE "png"

\* parseOutTimeMs(line): <<>> is null.  The pattern ^out_time_ms=(\d+)$ matches
\* no line with a minus sign and no other key.  The value is counted in
\* millions, the unit the caller divides by.
parseOutTimeMs(line) ==
  IF line[1] = "out_time_ms" /\ line[2] >= 0 THEN <<line[2]>> ELSE <<>>

Min(a, b) == IF a <= b THEN a ELSE b

\* Math.max(0, Math.min(0.99, outTimeMs / (durationSeconds * 1_000_000))), in
\* hundredths rounded down
progressUncapped(outTime, durationSeconds) ==
  IF (outTime * 100) \div durationSeconds < 0 THEN 0 ELSE (outTime * 100) \div durationSeconds

progressOf(outTime, durationSeconds) ==
  IF Min(ProgressCap, (outTime * 100) \div durationSeconds) < 0
    THEN 0
    ELSE Min(ProgressCap, (outTime * 100) \div durationSeconds)

\* ---- the worker's state as one value --------------------------------------
W == [q |-> Q, request |-> request, conv |-> conv, child |-> child]

CommitWorker(result) ==
  \E w \in {result} :
    /\ CommitQueue(w.q)
    /\ request' = w.request
    /\ conv' = w.conv
    /\ child' = w.child

\* options.signal.aborted
SignalAborted(w) == PipelineJob \in w.q.aborted

\* onProgress(value): reportProgress of the queue emits a progress event
onProgress(w, value) ==
  [w EXCEPT !.q = EmitEvent(@, "progress", PipelineJob, value),
            !.conv.progress = Append(@, value)]

\* the pipeline's promise settles and the queue's then/catch callback runs
settleWorker(w, outcome) ==
  [w EXCEPT !.conv.outcome = outcome,
            !.conv.pc = IF outcome = "resolved" THEN "returned" ELSE "failed",
            !.conv.result = IF outcome = "resolved" THEN w.conv.extras ELSE <<>>,
            !.q = settle(@, PipelineJob, outcome)]

\* ---- runFfmpeg ------------------------------------------------------------
\* complete without the settled flag
completeUnguarded(c, outcome, by, ab) ==
  [c EXCEPT !.settled = TRUE, !.listening = FALSE, !.promise = outcome,
            !.by = by, !.abortedThen = ab]

\* complete(err): outcome is "resolved" for complete(); by and ab record which
\* handler called it and signal.aborted at that moment
complete(c, outcome, by, ab) ==
  IF c.settled
    THEN c
    ELSE [c EXCEPT !.settled = TRUE, !.listening = FALSE, !.promise = outcome,
                   !.by = by, !.abortedThen = ab]

\* the executor of runFfmpeg's promise for the invocation called name; spawnOk
\* says whether spawn starts a process.  When it does not, the child's error
\* event is emitted in the tick of the call, before any other event.
runFfmpeg(w, name, spawnOk) ==
  IF SignalAborted(w)
    THEN [w EXCEPT !.child = [NoChild EXCEPT !.name = name, !.promise = abortError,
                                             !.by = "precheck", !.abortedThen = TRUE]]
    ELSE LET c == [NoChild EXCEPT !.name = name, !.listening = TRUE,
                                  !.proc = IF spawnOk THEN "running" ELSE "spawnFailed"]
         IN [w EXCEPT !.conv.spawned = Append(@, name),
                      !.child = IF spawnOk THEN c ELSE complete(c, "rejectedError", "error", FALSE)]

\* child.kill(signal): the signal is sent when the process has not been reaped,
\* and child.killed is set when it has been sent
kill(c, signal) ==
  IF c.proc = "running"
    THEN [c EXCEPT !.killed = TRUE,
                   !.sigterm = @ \/ signal = "SIGTERM",
                   !.sigkill = @ \/ signal = "SIGKILL"]
    ELSE c

\* onAbort
onAbort(c) == [kill(c, "SIGTERM") EXCEPT !.timer = "set"]

\* onAbort when SIGTERM cannot be sent to the running process: child.kill
\* emits error on the child before it returns false, the error listener calls
\* complete, and child.killed stays false
onAbortKillFails(c) ==
  [complete(c, "rejectedError", "error", TRUE) EXCEPT !.timer = "set"]

\* the callback of onAbort's setTimeout
onTimeout(c) ==
  LET c1 == [c EXCEPT !.timer = "fired"]
  IN IF ~c1.killed THEN kill(c1, "SIGKILL") ELSE c1

\* options.onStderrLine(line): the primary invocation of a video has one, the
\* other invocations have none
onStderrLine(w, line) ==
  IF w.request.type = "video"
    THEN LET outTimeMs == parseOutTimeMs(line)
         IN IF outTimeMs = <<>> \/ w.conv.durationSeconds <= 0
              THEN w
              ELSE onProgress(w, progressOf(outTimeMs[1], w.conv.durationSeconds))
    ELSE w

RECURSIVE forEachLine(_, _)
forEachLine(w, lines) ==
  IF lines = <<>>
    THEN w
    ELSE forEachLine(IF w.child.name = "primary" THEN onStderrLine(w, Head(lines)) ELSE w,
                     Tail(lines))

\* The listener of the child's stderr data event, for a chunk that holds one
\* line: the chunk starts with a line break exactly when a line is held in
\* stderrBuffer, and ends with one when terminated.
onData(w, line, terminated) ==
  LET lines == w.child.stderrBuffer \o (IF terminated THEN <<line>> ELSE <<>>)
      rest == IF terminated THEN <<>> ELSE <<line>>
  IN forEachLine([w EXCEPT !.child.stderrBuffer = rest,
                           !.conv.printed = @ + 1], lines)

\* the exit listener's decision that looks at the exit code first
exitOutcomeCodeFirst(signalAborted, e) ==
  IF e.code = <<0>> THEN "resolved"
  ELSE IF signalAborted THEN abortError
  ELSE "rejectedError"

\* the exit listener's decision that fails on a non-zero code only
exitOutcomeSignalOk(signalAborted, e) ==
  IF signalAborted THEN abortError
  ELSE IF e.code \in {<<>>, <<0>>} THEN "resolved"
  ELSE "rejectedError"

\* the exit listener's decision
exitOutcome(signalAborted, e) ==
  IF signalAborted THEN abortError
  ELSE IF e.code = <<0>> THEN "resolved"
  ELSE "rejectedError"

\* The listener of the child's exit event.  stillOpen says whether the
\* child's stderr is still open: the exit event does not wait for the stdio
\* streams to close.
onExit(w, e, stillOpen) ==
  LET w1 == forEachLine(w, w.child.stderrBuffer)
      c == [w1.child EXCEPT !.proc = "exited", !.exit = <<e>>]
  IN [w1 EXCEPT !.child = complete(c, exitOutcome(SignalAborted(w1), e), "exit",
                                   SignalAborted(w1)),
                !.conv.exits = Append(@, e),
                !.conv.stderrOpen = @ \/ (stillOpen /\ c.name = "primary"
                                           /\ c.stderrBuffer = <<>>)]

\* ---- convertAssetWithFfmpeg -----------------------------------------------
\* await runFfmpeg(..) for the invocation called name: the pipeline is
\* suspended while the promise is pending and fails with the rejection of a
\* promise that is rejected at once
invoke(w, name, spawnOk) ==
  LET w1 == runFfmpeg(w, name, spawnOk)
  IN IF w1.child.promise = "pending"
       THEN [w1 EXCEPT !.conv.pc = name]
       ELSE settleWorker(w1, w1.child.promise)

\* return { primaryPath, extras: extras.length > 0 ? extras : undefined, .. }
return(w) == settleWorker(w, "resolved")

\* if (request.config.alphaMask) { await runFfmpeg(..) .. } return ..
alphaMaskStep(w, spawnOk) ==
  IF w.request.alphaMask THEN invoke(w, "alpha", spawnOk) ELSE return(w)

\* a video branch that starts the alpha invocation without awaiting the
\* spritesheet invocation
afterPrimaryAllAtOnce(w, spawnOk) ==
  IF w.request.type = "video"
    THEN LET w1 == onProgress(w, ProgressDone)
         IN IF w.request.spritesheet
              THEN alphaMaskStep(invoke(w1, "spritesheet", spawnOk), spawnOk)
              ELSE alphaMaskStep(w1, spawnOk)
    ELSE return(onProgress(w, ProgressDone))

\* the video branch after the primary invocation: onProgress(1), then the
\* spritesheet invocation if configured
afterPrimary(w, spawnOk) ==
  IF w.request.type = "video"
    THEN LET w1 == onProgress(w, ProgressDone)
         IN IF w.request.spritesheet
              THEN invoke(w1, "spritesheet", spawnOk)
              ELSE alphaMaskStep(w1, spawnOk)
    ELSE return(onProgress(w, ProgressDone))

\* a pipeline that goes on after a failed spritesheet or alpha invocation
resumeIgnoringFailure(w, spawnOk) ==
  IF w.child.promise # "resolved" /\ w.conv.pc = "primary"
    THEN settleWorker(w, w.child.promise)
    ELSE CASE w.conv.pc = "primary" -> afterPrimary(w, spawnOk)
           [] w.conv.pc = "spritesheet" -> [w EXCEPT !.conv.pc = "meta"]
           [] w.conv.pc = "alpha" -> return([w EXCEPT !.conv.extras = Append(@, "alphaMaskPath")])

\* the pipeline resumes after the runFfmpeg promise it awaits has settled
resume(w, spawnOk) ==
  IF w.child.promise # "resolved"
    THEN settleWorker(w, w.child.promise)
    ELSE CASE w.conv.pc = "primary" -> afterPrimary(w, spawnOk)
           [] w.conv.pc = "spritesheet" -> [w EXCEPT !.conv.pc = "meta"]
           [] w.conv.pc = "alpha" -> return([w EXCEPT !.conv.extras = Append(@, "alphaMaskPath")])

\* a passthrough that reports the start of the copy as well
copiedReportingStart(w) ==
  return(onProgress(onProgress([w EXCEPT !.conv.copied = TRUE], ProgressStarted), ProgressDone))

\* the svg passthrough after fs.copyFile
copied(w) == return(onProgress([w EXCEPT !.conv.copied = TRUE], ProgressDone))

\* from formatOutputByType to the first await after fs.mkdir
start(w, spawnOk) ==
  LET outputFormat == formatOutputByType(w.request.type, w.request.outputFormat)
      w1 == [w EXCEPT !.conv.outputFormat = outputFormat]
  IN IF w.request.type = "svg" /\ outputFormat = "svg"
       THEN [w1 EXCEPT !.conv.pc = "copy"]
       ELSE IF w.request.type = "video"
         THEN [w1 EXCEPT !.conv.pc = "probe"]
         ELSE invoke(onProgress([w1 EXCEPT !.conv.filterBuilt = TRUE], ProgressStarted),
                     "primary", spawnOk)

\* the video branch from the probe's result to the primary invocation
probed(w, durationSeconds, spawnOk) ==
  invoke([w EXCEPT !.conv.durationSeconds = durationSeconds, !.conv.filterBuilt = TRUE],
         "primary", spawnOk)

\* after fs.writeFile(metaPath, ..)
metadataWritten(w, spawnOk) ==
  alphaMaskStep([w EXCEPT !.conv.written = @ \cup {"metaPath"},
                          !.conv.extras = @ \o <<"spritesheetPath", "metaPath">>], spawnOk)

\* ---- the worker's initial state and actions -------------------------------
\* new JobQueue(worker, 1), enqueue of one item for a request: job 1 is
\* started and its worker awaits fs.mkdir
InitWorker ==
  /\ request \in Requests
  /\ conv = [NoConversion EXCEPT !.pc = "mkdir"]
  /\ child = NoChild
  /\ \E q0 \in {[pending |-> <<>>, running |-> [i \in Ids |-> 0], canceled |-> {},
                 concurrency |-> InitialConcurrency(1), aborted |-> {}, events |-> <<>>,
                 hist |-> [j \in Jobs |-> <<>>], started |-> <<>>,
                 st |-> [j \in Jobs |-> "new"], jobId |-> [j \in Jobs |-> 0],
                 returned |-> <<>>, seen |-> <<>>]} :
       \E q \in {enqueue(WithFreshIds(q0, FreshItems(q0, 1)), FreshItems(q0, 1))} :
         /\ pending = q.pending
         /\ running = q.running
         /\ canceled = q.canceled
         /\ concurrency = q.concurrency
         /\ aborted = q.aborted
         /\ events = q.events
         /\ hist = q.hist
         /\ started = q.started
         /\ st = q.st
         /\ jobId = q.jobId

\* fs.mkdir settles
Mkdir ==
  /\ conv.pc = "mkdir"
  /\ \E ok, spawnOk \in BOOLEAN :
       CommitWorker(IF ok THEN start(W, spawnOk) ELSE settleWorker(W, "rejectedError"))

\* fs.copyFile settles
CopyFile ==
  /\ conv.pc = "copy"
  /\ \E ok \in BOOLEAN :
       CommitWorker(IF ok THEN copied(W) ELSE settleWorker(W, "rejectedError"))

\* probeDurationSeconds(..).catch(() => 0) settles
ProbeDuration ==
  /\ conv.pc = "probe"
  /\ \E durationSeconds \in Durations, spawnOk \in BOOLEAN :
       CommitWorker(probed(W, durationSeconds, spawnOk))

\* fs.writeFile settles
WriteFile ==
  /\ conv.pc = "meta"
  /\ \E ok, spawnOk \in BOOLEAN :
       CommitWorker(IF ok THEN metadataWritten(W, spawnOk) ELSE settleWorker(W, "rejectedError"))

\* the running child's stderr emits data
StderrData ==
  /\ child.proc = "running"
  /\ conv.printed < MaxLines
  /\ \E line \in Lines, terminated \in BOOLEAN : CommitWorker(onData(W, line, terminated))

\* the primary's stderr emits a complete line after the child's exit event
LateStderrData ==
  /\ conv.stderrOpen
  /\ conv.printed < MaxLines
  /\ \E line \in Lines :
       CommitWorker(onStderrLine([W EXCEPT !.conv.printed = @ + 1], line))

\* the child emits exit, and the pipeline resumes if this settles the promise
\* it awaits
ChildExit ==
  /\ child.proc = "running"
  /\ \E e \in Exits, stillOpen, spawnOk \in BOOLEAN :
       CommitWorker(IF child.settled
                      THEN onExit(W, e, stillOpen)
                      ELSE resume(onExit(W, e, stillOpen), spawnOk))

\* cancel(id) of the job: the first abort() of its controller dispatches the
\* abort event to onAbort if it is registered
CancelJob ==
  \E w \in {[W EXCEPT !.q = cancel(@, jobId[PipelineJob])]} :
    CommitWorker(IF ~SignalAborted(W) /\ SignalAborted(w) /\ w.child.listening
                   THEN [w EXCEPT !.child = onAbort(@)]
                   ELSE w)

\* the timer set by onAbort fires
Timeout ==
  /\ child.timer = "set"
  /\ CommitWorker([W EXCEPT !.child = onTimeout(@)])

\* the finally callback of the job
FinallyWorker ==
  /\ st[PipelineJob] = "handled"
  /\ CommitWorker([W EXCEPT !.q = finally(@, PipelineJob)])

NextWorker ==
  \/ Mkdir
  \/ CopyFile
  \/ ProbeDuration
  \/ WriteFile
  \/ StderrData
  \/ LateStderrData
  \/ ChildExit
  \/ CancelJob
  \/ Timeout
  \/ FinallyWorker

SpecWorker == InitWorker /\ [][NextWorker]_vars

\* cancel(id) of the job while its child runs, when the system refuses the
\* SIGTERM (Node: the process could not be killed): the child emits error and
\* goes on running, and its exit event comes later
CancelJobKillFails ==
  /\ child.proc = "running"
  /\ \E w \in {[W EXCEPT !.q = cancel(@, jobId[PipelineJob])]}, spawnOk \in BOOLEAN :
       /\ ~SignalAborted(W) /\ SignalAborted(w) /\ w.child.listening
       /\ CommitWorker(resume([w EXCEPT !.child = onAbortKillFails(@)], spawnOk))

\* the worker with children that emit both error and exit
NextWorkerErrors ==
  \/ NextWorker
  \/ CancelJobKillFails

SpecWorkerErrors == InitWorker /\ [][NextWorkerErrors]_vars

\* ---- properties ---------------------------------------------------------
Range(s) == {s[k] : k \in 1..Len(s)}

Count(h, types) == Cardinality({k \in 1..Len(h) : h[k] \in types})

Increasing(s) == \A a, b \in 1..Len(s) : a < b => s[a] < s[b]

WorkerUnsettled == {j \in Jobs : st[j] = "running"}

\* C1: with the concurrency limit fixed at construction and distinct ids, the
\* number of jobs whose worker was started and has not settled never exceeds
\* the limit.
C1_RunningWithinLimit == Cardinality(WorkerUnsettled) <= concurrency

\* a job waits for a slot that an earlier job has released to another one
C1_Witness ==
  /\ Cardinality(WorkerUnsettled) = concurrency
  /\ pending # <<>>
  /\ \E j \in Jobs : st[j] = "released"

\* C2: a job that cancel(id) removes from the pending list gets exactly the
\* events queued, canceled and never another one; the call changes no other
\* job, so the other jobs go on as they would have.
C2_Step ==
  \A j \in Jobs :
    /\ (st[j] = "pending" /\ st'[j] = "canceledPending") =>
         /\ hist'[j] = <<"queued", "canceled">>
         /\ running' = running
         /\ \A k \in Jobs \ {j} : st'[k] = st[k] /\ hist'[k] = hist[k]
    /\ st[j] = "canceledPending" =>
         /\ st'[j] = "canceledPending"
         /\ hist'[j] = hist[j]
         /\ j \notin Range(pending')

C2_CanceledPendingNeverRuns == [][C2_Step]_vars

\* job 2 was canceled while pending and job 1, enqueued before it, is done
C2_Witness ==
  /\ st[2] = "canceledPending"
  /\ hist[2] = <<"queued", "canceled">>
  /\ hist[1] = <<"queued", "start", "done">>

\* C3: every job whose then/catch callback has run has exactly one terminal
\* event (done, error or canceled).
C3_OneTerminalPerSettlement ==
  \A j \in Jobs : st[j] \in {"handled", "released"} => Count(hist[j], TerminalTypes) = 1

\* C4: every idle event is emitted while the pending list and the running map
\* are both empty.
C4_IdleOnlyWhenEmpty ==
  \A k \in 1..Len(events) :
    events[k].type = "idle" => (events[k].np = 0 /\ events[k].nr = 0)

\* the finally callback of the last job emits idle
C4_Witness ==
  /\ \E k \in 1..Len(events) : events[k].type = "idle"
  /\ \E j \in Jobs : st[j] = "released"
  /\ \A j \in Jobs : st[j] \notin {"pending", "running", "handled"}

Quiescent ==
  /\ pending = <<>>
  /\ \A j \in Jobs : st[j] \notin {"pending", "running", "handled"}

\* C5: when every worker has settled and every callback has run, every
\* enqueued job has received a terminal event.
C5_AllTerminalWhenQuiescent ==
  Quiescent => \A j \in Jobs : st[j] # "new" => Count(hist[j], TerminalTypes) >= 1

\* C6: per job, queued comes first, start comes before the terminal event,
\* there is at most one start, and progress is emitted only after start.
WellOrdered(h) ==
  \/ h = <<>>
  \/ /\ h[1] = "queued"
     /\ Count(h, {"queued"}) = 1
     /\ Count(h, {"start"}) <= 1
     /\ \A a, b \in 1..Len(h) : (a < b /\ h[b] = "start") => h[a] \notin TerminalTypes

C6_EventOrder ==
  /\ \A j \in Jobs : WellOrdered(hist[j])
  /\ \A k \in 1..Len(events) :
       events[k].type = "progress" => Count(hist[events[k].job], {"start"}) = 1

\* C7: jobs are started in the order in which they were enqueued, and the
\* pending list keeps that order, also after cancel removed an item.
C7_Fifo == Increasing(started) /\ Increasing(pending)

\* job 2 was canceled while jobs 2 and 3 were pending; 3 started after 1
C7_Witness ==
  /\ st[2] = "canceledPending"
  /\ started = <<1, 3>>

\* C8: a cancelAll step gives every job of the pending list exactly one
\* canceled event, in pending order, starts none of them, leaves the pending
\* list empty and every running controller aborted, whatever the listener
\* does inside the canceled callback; such a job is never started later.
CanceledIn(evs, js) ==
  SelectSeq([k \in 1..Len(evs) |-> IF evs[k].type = "canceled" /\ evs[k].job \in js
                                     THEN evs[k].job ELSE 0],
            LAMBDA x : x # 0)

C8_Step ==
  /\ (CancelAll \/ CancelAllReentrant) =>
       /\ \A j \in Range(pending) :
            hist'[j] = <<"queued", "canceled">> /\ st'[j] = "canceledAll"
       /\ CanceledIn(events', Range(pending)) = pending
       /\ pending' = <<>>
       /\ \A i \in Ids : running'[i] # 0 => running'[i] \in aborted'
  /\ \A j \in Jobs : st[j] = "canceledAll" => (st'[j] = "canceledAll" /\ hist'[j] = hist[j])

C8_CancelAllAtomic == [][C8_Step]_vars

\* C9: a job that has its terminal event and whose callbacks have run has its
\* id in none of pending, running and canceled.
C9_NoBookkeepingAfterTerminal ==
  \A j \in Jobs :
    (st[j] \in {"released", "canceledPending", "canceledAll"}
       /\ Count(hist[j], TerminalTypes) >= 1) =>
      /\ jobId[j] \notin canceled
      /\ running[jobId[j]] = 0
      /\ \A k \in 1..Len(pending) : jobId[pending[k]] # jobId[j]

\* C10: a job enqueued under the id of an earlier, terminated job is in the
\* running map under its id while its worker runs, and when its worker
\* resolves without the job having been canceled, done is emitted for it.
Reused(j) == \E i \in 1..(j - 1) : jobId[i] # 0 /\ jobId[i] = jobId[j]

C10_Step ==
  \A j \in Jobs :
    Reused(j) =>
      /\ st'[j] = "running" => running'[jobId'[j]] = j
      /\ (SettleJob(j, "resolved") /\ j \notin aborted) =>
           hist'[j] = <<"queued", "start", "done">>

C10_ReusedIdNormalLifecycle == [][C10_Step]_vars

\* cancel(id) finds id in the running map and not in the pending list
CancelsRunning(id) ==
  /\ running[id] # 0
  /\ PendingIndex(Q, id) = 0
  /\ CancelId(id)

\* C11: cancel(id) on a running job emits nothing and leaves the running map
\* as it is; the job keeps its entry of the running map while its worker is
\* pending, its terminal event is emitted when its worker settles and at no
\* other step, and its entry is removed by its finally callback only, which
\* hands the slot to the next pending job.
C11_Step ==
  /\ \A id \in Ids :
       CancelsRunning(id) =>
         /\ events' = <<>>
         /\ hist' = hist
         /\ running' = running
         /\ st' = st
         /\ running[id] \in aborted'
  /\ \A j \in Jobs :
       (j \in aborted /\ st[j] \in {"running", "handled"}) =>
         /\ hist'[j] # hist[j] => \E outcome \in Outcomes : SettleJob(j, outcome)
         /\ (\E outcome \in Outcomes : SettleJob(j, outcome)) =>
              /\ Len(hist'[j]) = Len(hist[j]) + 1
              /\ hist'[j][Len(hist'[j])] \in TerminalTypes
         /\ st'[j] = "running" => running'[jobId[j]] = j
         /\ running'[jobId[j]] # j =>
              /\ FinallyJob(j)
              /\ pending' = <<>> \/ Cardinality({i \in Ids : running'[i] # 0}) >= concurrency'

C11_CancelRunningKeepsSlot == [][C11_Step]_vars

\* C12: in every state the queue can be in, cancel(id) on a running job
\* aborts the signal of that job and of no other job, leaves the pending list
\* as it is, changes no other job's lifecycle, and changes for no other
\* running job the event its settlement will emit, whatever the outcome of
\* its worker.  (CancelId(id) is enabled in every state and commits exactly
\* cancel(Q, id).)
C12_CancelRunningAbortsOnlyThatJob ==
  \A id \in Ids :
    (running[id] # 0 /\ PendingIndex(Q, id) = 0) =>
      LET q == cancel(Q, id)
      IN /\ q.aborted = aborted \cup {running[id]}
         /\ q.pending = pending
         /\ \A j \in Jobs \ {running[id]} :
              /\ q.hist[j] = hist[j]
              /\ q.st[j] = st[j]
              /\ \A k \in 1..Len(q.events) : q.events[k].job # j
              /\ st[j] = "running" =>
                   \A outcome \in Outcomes :
                     settle(q, j, outcome).events = settle(Q, j, outcome).events

\* job 1 was canceled while running next to job 2, whose signal is not aborted
C12_Witness ==
  /\ aborted = {1}
  /\ jobId[1] \in canceled
  /\ st[1] = "running"
  /\ st[2] = "running"
  /\ events = <<>>

\* C13: in every state the queue can be in, cancel(id) with an id that is
\* neither in the pending list nor in the running map emits nothing and
\* changes neither the pending list, the running map, the canceled set, the
\* limit, any signal nor any job.  (CancelId(id) is enabled in every state
\* and commits exactly cancel(Q, id).)
C13_CancelUnknownIsNoOp ==
  \A id \in Ids :
    (running[id] = 0 /\ PendingIndex(Q, id) = 0) =>
      LET q == cancel(Q, id)
      IN /\ q.events = <<>>
         /\ q.pending = pending
         /\ q.running = running
         /\ q.canceled = canceled
         /\ q.concurrency = concurrency
         /\ q.aborted = aborted
         /\ q.hist = hist
         /\ q.st = st

\* Job 1 has finished and the queue is empty; with an empty queue every other
\* call emits an event, so the latest step was a cancel that found nothing.
C13_Witness ==
  /\ st[1] = "released"
  /\ pending = <<>>
  /\ RunningSize(Q) = 0
  /\ events = <<>>

\* job j is running and neither it nor its id was canceled at any time
NeverCanceled(j) ==
  /\ st[j] = "running"
  /\ jobId[j] \notin canceled
  /\ j \notin aborted
  /\ hist[j] = <<"queued", "start">>

\* the then/catch callback of job j for this outcome emits one event, of
\* job j, with this type and data
EmitsOnly(j, outcome, type, data) ==
  LET q == settle(Q, j, outcome)
  IN /\ Len(q.events) = 1
     /\ q.events[1].type = type
     /\ q.events[1].job = j
     /\ q.events[1].data = data
     /\ q.hist[j] = Append(hist[j], type)

C15_Step ==
  \A j \in Jobs :
    /\ (j \in aborted /\ jobId[j] \in canceled) =>
         /\ hist'[j] = hist[j] \/ hist'[j] = Append(hist[j], "canceled")
         /\ \A k \in 1..Len(events') :
              events'[k].job = j => events'[k].type \in {"canceled", "progress"}
    /\ st[j] = "released" => hist'[j] = hist[j]

C15_NoDoneOrErrorOnceMarked == [][C15_Step]_vars

\* job 1 was marked while running, its worker has settled and its then/catch
\* callback has emitted canceled
C15_Witness ==
  /\ 1 \in aborted
  /\ jobId[1] \in canceled
  /\ st[1] = "handled"
  /\ hist[1] = <<"queued", "start", "canceled">>
  /\ Len(events) = 1
  /\ events[1].type = "canceled"

\* C16: in every state the queue can be in, setConcurrency(n) with n below
\* the number of running jobs aborts no signal, marks nothing, emits no
\* canceled and no error event, and leaves the running map, the pending list
\* and every job's lifecycle as they are.  (SetConcurrencyTo(n) is enabled in
\* every state and commits exactly setConcurrency(Q, n).)
C16_LoweringDoesNotPreempt ==
  \A n \in SetInputs :
    n < RunningSize(Q) =>
      LET q == setConcurrency(Q, n)
      IN /\ q.aborted = aborted
         /\ q.canceled = canceled
         /\ q.running = running
         /\ q.pending = pending
         /\ q.hist = hist
         /\ q.st = st
         /\ \A k \in 1..Len(q.events) : q.events[k].type \notin {"canceled", "error"}

\* the limit was lowered to 1 while jobs 1 and 2 run, and both still run
\* with their signals not aborted
C16_Witness ==
  /\ concurrency = 1
  /\ RunningSize(Q) = 2
  /\ st[1] = "running"
  /\ st[2] = "running"
  /\ aborted = {}
  /\ canceled = {}
  /\ events = <<>>

Max(a, b) == IF a >= b THEN a ELSE b

\* C17: the limit is an integer >= 1 after construction and after every
\* call, and in every state the queue can be in, setConcurrency(n), for
\* every integer n, 0 and negative ones included, returns max(1, n), leaves
\* max(1, n) as the limit, and admits in the same call up to that limit and
\* not beyond it.  (SetConcurrencyTo(n) is enabled in every state and
\* commits exactly setConcurrency(Q, n).)
C17_LimitAtLeastOne ==
  /\ concurrency \in Nat
  /\ concurrency >= 1
  /\ \A n \in SetInputs :
       LET q == setConcurrency(Q, n)
       IN /\ q.returned = <<Max(1, n)>>
          /\ q.concurrency = Max(1, n)
          /\ RunningSize(q) <= Max(RunningSize(Q), Max(1, n))
          /\ q.pending = <<>> \/ RunningSize(q) >= Max(1, n)

\* the limit was lowered to 1, by setConcurrency(n) with some n <= 1, while
\* jobs 1 and 2 ran and job 3 waited; job 3 still waits
C17_Witness ==
  /\ concurrency = 1
  /\ st[1] = "running"
  /\ st[2] = "running"
  /\ pending = <<3>>
  /\ events = <<>>

\* C18: in every state the queue can be in, cancelAll() with two listeners,
\* of which the one registered first calls enqueue or setConcurrency from
\* inside its canceled callbacks, delivers to the listener registered last
\* every event of the call in the order in which the queue emitted them.
\* (The listener registered first receives them in that order because emit
\* calls it first; CancelAllReentrant commits exactly these calls.)
C18_SameOrderForAllListeners ==
  \A reacts \in [1..Len(pending) -> Reactions] :
    LET q == cancelAll(Q, Padded(reacts))
    IN q.seen = [k \in 1..Len(q.events) |-> k]

IdleCount(evs) == Cardinality({k \in 1..Len(evs) : evs[k].type = "idle"})

\* C19: idle is emitted once per drain-to-empty cycle: a call or callback
\* emits at most one idle, and it emits none when jobs were enqueued earlier,
\* the pending list and the running map were already empty before it (so
\* that the idle of that cycle has been emitted) and it enqueues nothing.
C19_Step ==
  /\ IdleCount(events') <= 1
  /\ ( /\ pending = <<>>
       /\ RunningSize(Q) = 0
       /\ \E j \in Jobs : st[j] # "new"
       /\ \A k \in 1..Len(events') : events'[k].type # "queued" )
     => IdleCount(events') = 0

C19_IdleOncePerCycle == [][C19_Step]_vars

\* cancel(id) finds id neither in the pending list nor in the running map
CancelsNothing(id) ==
  /\ running[id] = 0
  /\ PendingIndex(Q, id) = 0
  /\ CancelId(id)

\* C20: when a call or callback other than a cancel that finds nothing
\* leaves the pending list and the running map both empty, the last event
\* it emits is idle, and every job that was in the queue before it has its
\* terminal event, emitted before that idle.
C20_Step ==
  ( /\ pending' = <<>>
    /\ RunningSize(Q)' = 0
    /\ ~ \E id \in Ids : CancelsNothing(id) )
  => /\ events' # <<>>
     /\ events'[Len(events')].type = "idle"
     /\ \A j \in Jobs :
          st[j] \in {"pending", "running", "handled"} =>
            Count(hist'[j], TerminalTypes) = 1

C20_IdleWhenLeftEmpty == [][C20_Step]_vars

\* C21: in every state the queue can be in, enqueue(items) with a batch of
\* k new items appends them to the pending list in input order, emits first
\* one queued event per item in that order, and emits the start events only
\* after all of them; what is left pending afterwards is a tail of the old
\* list followed by the batch.  (EnqueueBatch(k) commits exactly this call.)
C21_EnqueueOrder ==
  \A k \in 0..Cardinality(NewJobs(Q)) :
    LET items == FreshItems(Q, k)
        q0 == WithFreshIds(Q, items)
        pushed == enqueueLoop(q0, items)
        q == enqueue(q0, items)
        all == pending \o items
    IN /\ pushed.pending = all
       /\ Len(q.events) >= k
       /\ \A m \in 1..k : q.events[m].type = "queued" /\ q.events[m].job = items[m]
       /\ \A m \in (k + 1)..Len(q.events) : q.events[m].type \in {"start", "idle"}
       /\ q.pending = SubSeq(all, Len(all) - Len(q.pending) + 1, Len(all))

\* enqueue of jobs 1 and 2 at limit 1: both queued events precede the start
\* of job 1, and job 2 waits
C21_Witness ==
  /\ Len(events) = 3
  /\ events[1].type = "queued" /\ events[1].job = 1
  /\ events[2].type = "queued" /\ events[2].job = 2
  /\ events[3].type = "start" /\ events[3].job = 1
  /\ pending = <<2>>

\* ---- C22 ----------------------------------------------------------------
\* C22: when the timer that onAbort set after sending SIGTERM has fired (the
\* grace period is over) and the subprocess has not exited, SIGKILL has been
\* sent to the subprocess.
C22_KillAfterGrace ==
  (child.timer = "fired" /\ child.proc = "running") => child.sigkill

\* ---- C23 ----------------------------------------------------------------
\* the invocation the pipeline awaited last was settled with the signal
\* aborted, by the check before spawn or by the exit listener
SettledAborted == child.by \in {"precheck", "exit"} /\ child.abortedThen

ExitedWithZero == child.exit # <<>> /\ child.exit[1].code = <<0>>

\* C24: an invocation that is settled while the signal is not aborted is
\* resolved exactly when its process has exited with code 0; with a non-zero
\* exit code, an exit by a signal or a failed spawn it is rejected with an
\* ordinary error.
C24_SuccessIffExitZero ==
  (child.promise # "pending" /\ ~child.abortedThen) =>
    /\ child.promise = "resolved" <=> (child.by = "exit" /\ ExitedWithZero)
    /\ child.promise \in {"resolved", "rejectedError"}
    /\ child.proc = "spawnFailed" => child.by = "error" /\ child.promise = "rejectedError"

C24_Witness ==
  /\ child.promise = "rejectedError"
  /\ ~child.abortedThen
  /\ child.by = "exit"
  /\ child.exit = <<[code |-> <<>>, signal |-> <<"SIGTERM">>]>>
  /\ conv.outcome = "rejectedError"

\* ---- C25 ----------------------------------------------------------------
Last(s) == s[Len(s)]

\* the primary invocation's process is running
PrimaryRunning == conv.pc = "primary" /\ child.proc = "running"

\* the primary invocation has resolved: its child has exited with code 0 and
\* the exit listener did not find the signal aborted
PrimarySucceeded ==
  /\ conv.exits # <<>>
  /\ conv.exits[1].code = <<0>>
  /\ ~(child.name = "primary" /\ child.promise # "resolved")

\* every value reported while the primary invocation runs is in [0, 0.99]
C25_CappedWhileRunning ==
  PrimaryRunning =>
    \A k \in 1..Len(conv.progress) : conv.progress[k] >= 0 /\ conv.progress[k] <= ProgressCap

\* once the primary invocation has succeeded, 1.0 has been reported
C25_OneAfterPrimary == PrimarySucceeded => ProgressDone \in Range(conv.progress)

\* a step that emits done for the job leaves 1.0 as the last reported value
C25_Step ==
  (hist'[PipelineJob] # hist[PipelineJob] /\ Last(hist'[PipelineJob]) = "done") =>
    (conv'.progress # <<>> /\ Last(conv'.progress) = ProgressDone)

\* C25: the progress values reported while the primary invocation is running
\* lie in [0, 0.99], 1.0 is reported once the primary invocation has exited
\* successfully, and the last value reported before the done event of a job
\* is 1.0.
C25_ProgressEndsAtOne ==
  /\ [](C25_CappedWhileRunning /\ C25_OneAfterPrimary)
  /\ [][C25_Step]_vars

\* ---- C26 ----------------------------------------------------------------
\* C26: the progress values reported for the job are in non-decreasing order.
C26_ProgressNonDecreasing ==
  \A a, b \in 1..Len(conv.progress) : a < b => conv.progress[a] <= conv.progress[b]

\* ---- C27 ----------------------------------------------------------------
\* C27: the result returned for a video request with spritesheet set and
\* alphaMask unset lists exactly one extra, the spritesheet image; the
\* metadata file has been written and is no element of the extras.
C27_SpritesheetIsTheOnlyExtra ==
  (request.type = "video" /\ request.spritesheet /\ ~request.alphaMask /\ conv.pc = "returned") =>
    /\ conv.result = <<"spritesheetPath">>
    /\ "metaPath" \in conv.written

\* ---- C28 ----------------------------------------------------------------
\* C28: for an svg request whose output format is svg no process is spawned
\* and no filter is built; nothing is reported before the copy is made, and
\* when the result is returned the input has been copied and the values
\* reported are exactly one 1.0.
C28_VectorPassthrough ==
  (request.type = "svg"
     /\ formatOutputByType(request.type, request.outputFormat) = "svg"
     /\ conv.pc # "mkdir") =>
    /\ conv.spawned = <<>>
    /\ child = NoChild
    /\ ~conv.filterBuilt
    /\ conv.pc \in {"copy", "returned", "failed"}
    /\ conv.pc # "returned" => conv.progress = <<>>
    /\ conv.pc = "returned" =>
         /\ conv.outputFormat = "svg"
         /\ conv.copied
         /\ conv.progress = <<ProgressDone>>
         /\ conv.result = <<>>

C28_Witness ==
  /\ request.type = "svg"
  /\ request.outputFormat = "svg"
  /\ conv.pc = "returned"
  /\ conv.copied
  /\ conv.progress = <<ProgressDone>>
  /\ conv.spawned = <<>>
  /\ hist[PipelineJob] = <<"queued", "start", "done">>

\* ---- C29 ----------------------------------------------------------------
\* the invocations a video request asks for, in the pipeline's order
Invocations(r) ==
  <<"primary">> \o (IF r.spritesheet THEN <<"spritesheet">> ELSE <<>>)
                \o (IF r.alphaMask THEN <<"alpha">> ELSE <<>>)

\* the pipeline has failed and the job has ended with error or canceled
FailedAsAWhole ==
  /\ conv.pc = "failed"
  /\ conv.result = <<>>
  /\ "done" \notin Range(hist[PipelineJob])
  /\ Last(hist[PipelineJob]) \in {"error", "canceled"}

\* C29: for a video request the invocations are spawned in the order primary,
\* spritesheet, alpha, each one only after all earlier ones have exited with
\* code 0; when an invocation has exited otherwise, could not be spawned or
\* was rejected, no later invocation is spawned and the pipeline has failed
\* without a result, the job ending with error or canceled and not with done.
C29_DerivedOnlyAfterSuccess ==
  request.type = "video" =>
    /\ Len(conv.spawned) <= Len(Invocations(request))
    /\ conv.spawned = SubSeq(Invocations(request), 1, Len(conv.spawned))
    /\ Len(conv.exits) <= Len(conv.spawned)
    /\ \A k \in 2..Len(conv.spawned) :
         Len(conv.exits) >= k - 1 /\ \A i \in 1..(k - 1) : conv.exits[i].code = <<0>>
    /\ \A i \in 1..Len(conv.exits) :
         conv.exits[i].code # <<0>> => Len(conv.spawned) = i /\ FailedAsAWhole
    /\ child.promise \in {"rejectedAbort", "rejectedError"} => FailedAsAWhole
    /\ "done" \in Range(hist[PipelineJob]) =>
         Len(conv.exits) = Len(Invocations(request))

C29_Witness ==
  /\ request.type = "video"
  /\ request.spritesheet
  /\ request.alphaMask
  /\ conv.spawned = <<"primary", "spritesheet">>
  /\ Len(conv.exits) = 2
  /\ conv.exits[1].code = <<0>>
  /\ conv.exits[2].code = <<1>>
  /\ conv.pc = "failed"
  /\ hist[PipelineJob] = <<"queued", "start", "error">>

\* ---- C30 ----------------------------------------------------------------
\* the formats a primary output of the asset kind can have
Compatible(type) ==
  CASE type = "video" -> {"mp4", "webm"}
    [] type = "svg" -> {"svg", "png"}
    [] OTHER -> {"png"}

\* the format used for the kind when the configured one cannot be used
KindDefault(type) == IF type = "video" THEN "mp4" ELSE "png"

StartedBy(evs) ==
  LET F[k \in 0..Len(evs)] ==
        IF k = 0 THEN <<>>
        ELSE IF evs[k].type = "start" THEN Append(F[k - 1], evs[k].job) ELSE F[k - 1]
  IN F[Len(evs)]

\* C35: every start event is emitted with fewer jobs running before it than
\* the limit (the job it starts included, at most the limit); and in every
\* state setConcurrency(n) starts, before it returns, exactly the first
\* min(pending, max(1, n) - running) pending jobs, none when the limit is not
\* above the number of running jobs.
C35_AdmissionBelowLimit ==
  /\ \A k \in 1..Len(events) : events[k].type = "start" => events[k].nr <= concurrency
  /\ \A n \in SetInputs :
       LET q == setConcurrency(Q, n)
           free == Max(0, Max(1, n) - RunningSize(Q))
           admitted == Min(Len(pending), free)
       IN /\ StartedBy(q.events) = SubSeq(pending, 1, admitted)
          /\ q.pending = SubSeq(pending, admitted + 1, Len(pending))
          /\ RunningSize(q) = RunningSize(Q) + admitted
          /\ \A k \in 1..Len(q.events) :
               q.events[k].type = "start" => q.events[k].nr <= q.concurrency

\* the limit was raised from 1 to 2 with jobs 2 and 3 pending: job 2 was
\* started in the call and job 3 still waits
C35_Witness ==
  /\ concurrency = 2
  /\ Len(events) = 1
  /\ events[1].type = "start"
  /\ events[1].job = 2
  /\ events[1].nr = 2
  /\ st[1] = "running"
  /\ pending = <<3>>

\* ---- C37 ----------------------------------------------------------------
\* C37: between calls and callbacks, when the pending list is not empty the
\* running map holds at least as many jobs as the limit; and when moreover no
\* settled job is waiting for its finally callback, at least that many
\* workers are unsettled.
C37_WorkConserving ==
  Len(pending) > 0 =>
    /\ RunningSize(Q) >= concurrency
    /\ (\A j \in Jobs : st[j] # "handled") => Cardinality(WorkerUnsettled) >= concurrency

\* job 1 has finished and its finally callback has started job 2 in the
\* freed slot, job 3 waits
C37_Witness ==
  /\ concurrency = 1
  /\ st[1] = "released"
  /\ st[2] = "running"
  /\ pending = <<3>>
  /\ Len(events) = 1
  /\ events[1].type = "start"
  /\ events[1].job = 2

\* ---- C36 ----------------------------------------------------------------
\* a progress event of the step is emitted for a job without a terminal
\* event, and before the terminal event the same step emits
C36_Step ==
  \A k \in 1..Len(events') :
    events'[k].type = "progress" =>
      /\ ~HasTerminal(Q, events'[k].job)
      /\ \A m \in 1..(k - 1) :
           ~(events'[m].job = events'[k].job /\ events'[m].type \in TerminalTypes)

\* C36: no progress event is emitted for a job after the job's done, error
\* or canceled event.
C36_NoProgressAfterTerminal == [][C36_Step]_vars

\* ---- C38 ----------------------------------------------------------------
\* the subprocesses of the job that are in flight: the ffprobe process while
\* the pipeline awaits the probe, and the spawned ffmpeg processes that have
\* not exited
InFlight ==
  (IF conv.pc = "probe" THEN 1 ELSE 0)
    + Cardinality({k \in 1..Len(conv.spawned) : k > Len(conv.exits)
                                                 /\ ~(k = Len(conv.spawned) /\ child.proc = "spawnFailed")})

\* C38: at most one subprocess of the job is in flight; no ffmpeg process is
\* spawned before the probe has settled, and the k-th ffmpeg process is
\* spawned only after the k - 1 processes before it have exited.
C38_OneSubprocessInFlight ==
  /\ InFlight <= 1
  /\ conv.pc \in {"mkdir", "copy", "probe"} => conv.spawned = <<>>
  /\ Len(conv.spawned) >= 1 => Len(conv.exits) >= Len(conv.spawned) - 1
  /\ child.proc = "running" =>
       Len(conv.exits) = Len(conv.spawned) - 1 /\ child.name = Last(conv.spawned)

\* the alpha invocation runs after the primary and the spritesheet
\* invocations have exited
C38_Witness ==
  /\ request.type = "video"
  /\ conv.spawned = <<"primary", "spritesheet", "alpha">>
  /\ Len(conv.exits) = 2
  /\ child.name = "alpha"
  /\ child.proc = "running"
  /\ InFlight = 1

\* ---- C39 ----------------------------------------------------------------
\* the step launches a subprocess: the pipeline calls probeDurationSeconds,
\* which runs ffprobe, or runFfmpeg spawns ffmpeg
Launches ==
  \/ conv.pc # "probe" /\ conv'.pc = "probe"
  \/ Len(conv'.spawned) > Len(conv.spawned)

\* a step that launches a subprocess begins with the signal not aborted, and
\* a runFfmpeg call that begins with it aborted rejects with the AbortError
\* and spawns nothing
C39_Step ==
  /\ Launches => PipelineJob \notin aborted
  /\ (child'.by = "precheck" /\ child # child') =>
       /\ child'.promise = abortError
       /\ child'.proc = "none"
       /\ conv'.spawned = conv.spawned

\* C39: no subprocess is launched for the job once its signal is aborted: a
\* conversion step that begins with the signal aborted fails with the
\* AbortError without launching a process.
C39_NoSpawnAfterAbort == [][C39_Step]_vars

\* ---- C40 ----------------------------------------------------------------
\* the step makes no new runFfmpeg call
SameInvocation == child'.name = child.name /\ conv'.spawned = conv.spawned

\* a settled invocation keeps its outcome whatever its child emits later,
\* the pipeline and the job see one settlement, and a settled invocation has
\* no abort listener on the signal
C40_Step ==
  /\ (child.promise # "pending" /\ SameInvocation) =>
       /\ child'.promise = child.promise
       /\ child'.by = child.by
       /\ child'.abortedThen = child.abortedThen
  /\ conv.outcome # "pending" =>
       conv'.outcome = conv.outcome /\ hist'[PipelineJob] = hist[PipelineJob]
  /\ child'.promise # "pending" => ~child'.listening

\* C40: an invocation settles once: the first of the child's error and exit
\* callbacks decides the outcome, a later callback leaves it as it is, and the
\* abort listener is removed at the settlement.
C40_SettlesOnce == [][C40_Step]_vars

\* the child emitted error first, which rejected the invocation, and its exit
\* with code 0 came afterwards
C40_Witness ==
  /\ child.by = "error"
  /\ child.promise = "rejectedError"
  /\ child.proc = "exited"
  /\ child.exit = <<[code |-> <<0>>, signal |-> <<>>]>>
  /\ ~child.listening
  /\ conv.outcome = "rejectedError"

\* ---- the filter graph builder (packages/ffmpeg/src/index.ts) --------------
\* The configurations hold integers, on which Math.floor changes nothing; a
\* knob that is 0 is falsy in `config.knob || fallback`.
Grids == {-1, 0, 1, 16, 512, 513}
Scales == {-1, 0, 1, 4, 17}
AlphaThresholds == {-1, 0, 8, 255, 256}
Palettes == {-1, 0, 2, 64, 255, 256, 257}
FrameRates == {-1, 0, 1, 120, 121}
Dithers == {"none", "bayer", "floyd"}

Configs ==
  [grid : Grids, palette : Palettes, dither : Dithers, trim : BOOLEAN,
   alphaThreshold : AlphaThresholds, scale : Scales, fps : FrameRates]

FilterRequests == [type : AssetTypes, config : Configs]

\* value || fallback on numbers
orElse(value, fallback) == IF value = 0 THEN fallback ELSE value

\* Math.max(min, Math.min(max, value))
clamp(value, min, max) ==
  LET least == IF max <= value THEN max ELSE value
  IN IF min >= least THEN min ELSE least

ditherMode(dither) ==
  CASE dither = "floyd" -> "floyd_steinberg"
    [] dither = "bayer" -> "bayer:bayer_scale=2"
    [] OTHER -> "none"

\* createBaseFilter: the parts that are joined with commas.  <<"scale_down", g>>
\* is scale=max(1\,trunc(iw/g)):max(1\,trunc(ih/g)):flags=neighbor,
\* <<"scale_up", s>> is scale=iw*s:ih*s:flags=neighbor, <<"lut_alpha", a>> is
\* lut=a='if(lt(val\,a)\,0\,255)', <<"crop_even">> is crop=iw-mod(iw\,2):ih-mod(ih\,2)
\* and <<"pad_even">> is pad=ceil(iw/2)*2:ceil(ih/2)*2
createBaseFilter(config, isVideo) ==
  LET grid == clamp(orElse(config.grid, 32), 1, 512)
      scale == clamp(orElse(config.scale, 1), 1, 16)
      alphaThreshold == clamp(orElse(config.alphaThreshold, 0), 0, 255)
      fps == clamp(orElse(config.fps, 24), 1, 120)
  IN <<  <<"scale_down", grid>>  >>
     \o (IF scale > 1 THEN <<  <<"scale_up", scale>>  >> ELSE <<>>)
     \o (IF alphaThreshold > 0
           THEN <<  <<"format_rgba">>, <<"lut_alpha", alphaThreshold>>  >>
           ELSE <<>>)
     \o (IF config.trim \/ isVideo THEN <<  <<"crop_even">>  >> ELSE <<>>)
     \o (IF isVideo THEN <<  <<"fps", fps>>, <<"pad_even">>  >> ELSE <<>>)

\* buildFilterSpec: flag is the first argument, graph the parts of the filter
\* in the second one, and map what follows "-map"
buildFilterSpec(config, isVideo) ==
  LET baseFilter == createBaseFilter(config, isVideo)
      palette == clamp(orElse(config.palette, 256), 2, 256)
  IN IF palette >= 256
       THEN [flag |-> "-vf", graph |-> baseFilter, map |-> <<>>]
       ELSE [flag |-> "-filter_complex",
             graph |-> baseFilter \o <<  <<"split", 2>>,
                                         <<"palettegen", palette>>,
                                         <<"paletteuse", ditherMode(config.dither)>>  >>,
             map |-> <<"[vout]">>]

\* a request whose filter is not built yet; no queue is involved
InitFilter ==
  /\ request \in FilterRequests
  /\ conv = Unused
  /\ child = Unused
  /\ pending = <<>>
  /\ running = [i \in Ids |-> 0]
  /\ canceled = {}
  /\ concurrency = InitialConcurrency(1)
  /\ aborted = {}
  /\ events = <<>>
  /\ hist = [j \in Jobs |-> <<>>]
  /\ started = <<>>
  /\ st = [j \in Jobs |-> "new"]
  /\ jobId = [j \in Jobs |-> 0]

\* convertAssetWithFfmpeg builds the filter of its request; conv holds it
BuildFilterSpec ==
  /\ conv = Unused
  /\ conv' = buildFilterSpec(request.config, request.type = "video")
  /\ UNCHANGED <<queueVars, request, child>>

NextFilter == BuildFilterSpec

SpecFilter == InitFilter /\ [][NextFilter]_vars

\* ---- C31 ----------------------------------------------------------------
StageOrder ==
  <<"downscale", "upscale", "alpha", "crop", "fps", "pad", "palette">>

StageOf(part) ==
  CASE part[1] = "scale_down" -> "downscale"
    [] part[1] = "scale_up" -> "upscale"
    [] part[1] \in {"format_rgba", "lut_alpha"} -> "alpha"
    [] part[1] = "crop_even" -> "crop"
    [] part[1] = "fps" -> "fps"
    [] part[1] = "pad_even" -> "pad"
    [] part[1] \in {"split", "palettegen", "paletteuse"} -> "palette"

\* the stages of a graph, each named once where its parts follow one another
RECURSIVE Stages(_)
Stages(graph) ==
  IF graph = <<>> THEN <<>>
  ELSE LET rest == Stages(Tail(graph))
       IN IF rest # <<>> /\ rest[1] = StageOf(graph[1])
            THEN rest
            ELSE <<StageOf(graph[1])>> \o rest

\* the stages the statement asks for, with palette size p
StagesWanted(p) ==
  LET c == request.config
      isVideo == request.type = "video"
      wanted(s) ==
        CASE s = "downscale" -> TRUE
          [] s = "upscale" -> c.scale > 1
          [] s = "alpha" -> c.alphaThreshold > 0
          [] s = "crop" -> c.trim \/ isVideo
          [] s \in {"fps", "pad"} -> isVideo
          [] s = "palette" -> p < 256
  IN SelectSeq(StageOrder, wanted)

\* C31: for every configuration and asset kind the graph is downscale,
\* upscale, alpha binarization, even crop, frame rate, even pad, palette
\* reduction in this order, with downscale always, upscale iff scale > 1,
\* alpha iff alphaThreshold > 0, crop iff trim or video, frame rate and pad
\* iff video, palette reduction iff the configured palette size is below 256.
C31_StagesInOrder ==
  conv # Unused => Stages(conv.graph) = StagesWanted(request.config.palette)

\* ---- C32 ----------------------------------------------------------------
\* the number in the part named name, <<>> when the graph has no such part
Used(graph, name) ==
  LET at == {k \in 1..Len(graph) : graph[k][1] = name}
  IN IF at = {} THEN <<>> ELSE <<graph[CHOOSE k \in at : TRUE][2]>>

\* min(hi, max(lo, input))
Clamped(input, lo, hi) == Min(hi, Max(lo, input))

\* C32: for every integer input the value used in the graph is
\* min(hi, max(lo, input)), with grid 1..512, scale 1..16, alpha threshold
\* 0..255, palette 2..256 and frame rate 1..120; a stage that is left out
\* stands for scale 1, alpha threshold 0 and palette 256.
C32_ClampedAsStated ==
  conv # Unused =>
    LET c == request.config
        g == conv.graph
    IN /\ Used(g, "scale_down") = <<Clamped(c.grid, 1, 512)>>
       /\ Used(g, "scale_up") \in {<<Clamped(c.scale, 1, 16)>>} \cup
            (IF Clamped(c.scale, 1, 16) = 1 THEN {<<>>} ELSE {})
       /\ Used(g, "lut_alpha") \in {<<Clamped(c.alphaThreshold, 0, 255)>>} \cup
            (IF Clamped(c.alphaThreshold, 0, 255) = 0 THEN {<<>>} ELSE {})
       /\ Used(g, "palettegen") \in {<<Clamped(c.palette, 2, 256)>>} \cup
            (IF Clamped(c.palette, 2, 256) = 256 THEN {<<>>} ELSE {})
       /\ request.type = "video" => Used(g, "fps") = <<Clamped(c.fps, 1, 120)>>

\* ---- the path scanner (packages/core/src/pathScanner.ts) ------------------
\* Under SpecScan `request` holds the arguments of one expandInputPaths call
\* and the file system it runs on, and `conv` the call's state.  A path is the
\* sequence of its segments, from the working directory.
MaxInputs == 2

\* the names of the directory entries, in localeCompare order
NamesSorted == <<"clip.MP4", "hero.png", "nested", "notes.txt", "pack.gif">>

Names == {NamesSorted[k] : k \in 1..Len(NamesSorted)}

\* what fs.stat and fs.readdir find: a regular file, a fifo, a directory, a
\* directory that readdir cannot read, or nothing (stat throws)
Trees ==
  {t \in [{<<"d">>, <<"d", "hero.png">>, <<"d", "notes.txt">>, <<"d", "pack.gif">>,
           <<"d", "pack.gif", "hero.png">>, <<"d", "nested">>,
           <<"d", "nested", "clip.MP4">>, <<"d", "nested", "notes.txt">>}
            -> {"file", "fifo", "dir", "dirNoRead", "none"}] :
     /\ t[<<"d">>] = "dir"
     /\ t[<<"d", "hero.png">>] \in {"file", "fifo", "none"}
     /\ t[<<"d", "notes.txt">>] \in {"file", "none"}
     /\ t[<<"d", "pack.gif">>] \in {"file", "dir"}
     /\ t[<<"d", "pack.gif", "hero.png">>] \in
          (IF t[<<"d", "pack.gif">>] = "dir" THEN {"file"} ELSE {"none"})
     /\ t[<<"d", "nested">>] \in {"dir", "dirNoRead", "none"}
     /\ t[<<"d", "nested", "clip.MP4">>] \in
          (IF t[<<"d", "nested">>] = "none" THEN {"none"} ELSE {"file", "none"})
     /\ t[<<"d", "nested", "notes.txt">>] \in
          (IF t[<<"d", "nested">>] = "none" THEN {"none"} ELSE {"file"})}

\* the input paths as they are written: "d", "./d", "d/hero.png",
\* "d/nested/../hero.png", "d/nested", "d/pack.gif" and "missing.png"
InputPaths ==
  {<<"d">>, <<".", "d">>, <<"d", "hero.png">>, <<"d", "nested", "..", "hero.png">>,
   <<"d", "nested">>, <<"d", "pack.gif">>, <<"missing.png">>}

InputLists == UNION {[1..n -> InputPaths] : n \in 1..MaxInputs}

\* path.resolve: "." is dropped and ".." removes the segment before it
RECURSIVE resolveOnto(_, _)
resolveOnto(resolved, targetPath) ==
  IF targetPath = <<>> THEN resolved
  ELSE LET segment == targetPath[1]
       IN resolveOnto(CASE segment = "." -> resolved
                        [] segment = ".." ->
                             IF resolved = <<>> THEN <<>>
                             ELSE SubSeq(resolved, 1, Len(resolved) - 1)
                        [] OTHER -> Append(resolved, segment),
                      Tail(targetPath))

resolve(targetPath) == resolveOnto(<<>>, targetPath)

\* path.extname of a path whose last segment is one of the names
extname(inputPath) ==
  CASE inputPath = <<>> -> ""
    [] inputPath[Len(inputPath)] = "clip.MP4" -> ".MP4"
    [] inputPath[Len(inputPath)] \in {"hero.png", "missing.png"} -> ".png"
    [] inputPath[Len(inputPath)] = "notes.txt" -> ".txt"
    [] inputPath[Len(inputPath)] = "pack.gif" -> ".gif"
    [] OTHER -> ""

toLowerCase(ext) == IF ext = ".MP4" THEN ".mp4" ELSE ext

imageExt == {".png", ".jpg", ".jpeg", ".webp", ".gif", ".bmp"}
videoExt == {".mp4", ".mov", ".webm", ".mkv", ".avi", ".m4v"}
supportedAssetExtensions == imageExt \cup videoExt \cup {".svg"}

isSupportedAssetPath(inputPath) ==
  toLowerCase(extname(inputPath)) \in supportedAssetExtensions

\* fs.stat(resolved) on the tree: "none" when it throws
stat(tree, resolved) ==
  IF resolved \in DOMAIN tree THEN tree[resolved] ELSE "none"

\* the names fs.readdir(resolved) returns, in no order
readdir(tree, resolved) ==
  {name \in Names : stat(tree, Append(resolved, name)) # "none"}

\* entries.sort((a, b) => a.name.localeCompare(b.name)), then the paths
\* path.join(resolved, entry.name) of the loop
sortedPaths(resolved, entries) ==
  LET sorted == SelectSeq(NamesSorted, LAMBDA name : name \in entries)
  IN [k \in 1..Len(sorted) |-> Append(resolved, sorted[k])]

\* walk without the seen set
walkUnseen(tree, s) ==
  LET resolved == resolve(s.todo[1])
      rest == Tail(s.todo)
      kind == stat(tree, resolved)
  IN CASE kind = "none" -> [s EXCEPT !.todo = rest]
       [] kind = "dirNoRead" -> [s EXCEPT !.todo = rest]
       [] kind = "dir" ->
            [s EXCEPT !.todo = sortedPaths(resolved, readdir(tree, resolved)) \o rest]
       [] kind = "file" /\ isSupportedAssetPath(resolved) ->
            [s EXCEPT !.todo = rest, !.files = Append(@, resolved)]
       [] OTHER -> [s EXCEPT !.todo = rest]

\* walk(targetPath) for the first path of todo, the paths still to be walked:
\* the entries of a directory are walked before what follows it
walk(tree, s) ==
  LET resolved == resolve(s.todo[1])
      rest == Tail(s.todo)
      kind == stat(tree, resolved)
      s1 == [s EXCEPT !.seen = @ \cup {resolved}]
  IN CASE resolved \in s.seen -> [s EXCEPT !.todo = rest]
       [] kind = "none" -> [s1 EXCEPT !.todo = rest]
       [] kind = "dirNoRead" -> [s1 EXCEPT !.todo = rest]
       [] kind = "dir" ->
            [s1 EXCEPT !.todo = sortedPaths(resolved, readdir(tree, resolved)) \o rest]
       [] kind = "file" /\ isSupportedAssetPath(resolved) ->
            [s1 EXCEPT !.todo = rest, !.files = Append(@, resolved)]
       [] OTHER -> [s1 EXCEPT !.todo = rest]

\* expandInputPaths(inputPaths) is called
InitScan ==
  /\ request \in [inputPaths : InputLists, tree : Trees]
  /\ conv = [pc |-> "walking", todo |-> request.inputPaths, seen |-> {}, files |-> <<>>]
  /\ child = Unused
  /\ pending = <<>>
  /\ running = [i \in Ids |-> 0]
  /\ canceled = {}
  /\ concurrency = InitialConcurrency(1)
  /\ aborted = {}
  /\ events = <<>>
  /\ hist = [j \in Jobs |-> <<>>]
  /\ started = <<>>
  /\ st = [j \in Jobs |-> "new"]
  /\ jobId = [j \in Jobs |-> 0]

\* one call of walk
Walk ==
  /\ conv.pc = "walking"
  /\ conv.todo # <<>>
  /\ conv' = walk(request.tree, conv)
  /\ UNCHANGED <<queueVars, request, child>>

\* return files
ReturnFiles ==
  /\ conv.pc = "walking"
  /\ conv.todo = <<>>
  /\ conv' = [conv EXCEPT !.pc = "returned"]
  /\ UNCHANGED <<queueVars, request, child>>

NextScan ==
  \/ Walk
  \/ ReturnFiles

SpecScan == InitScan /\ [][NextScan]_vars

\* ---- C33 ----------------------------------------------------------------
IsPrefix(p, q) == Len(p) <= Len(q) /\ SubSeq(q, 1, Len(p)) = p

\* q is reached from the input path that resolves to p: every directory from
\* p down to q's parent can be read
ReachedFrom(p, q) ==
  /\ IsPrefix(p, q)
  /\ \A k \in Len(p)..(Len(q) - 1) : stat(request.tree, SubSeq(q, 1, k)) = "dir"

\* the inputs from which a path is reached
InputsReaching(q) ==
  {i \in 1..Len(request.inputPaths) : ReachedFrom(resolve(request.inputPaths[i]), q)}

\* the regular files with a supported extension that are reached
SupportedReached ==
  {q \in DOMAIN request.tree :
     /\ InputsReaching(q) # {}
     /\ request.tree[q] = "file"
     /\ toLowerCase(extname(q)) \in supportedAssetExtensions}

FirstInput(q) == CHOOSE i \in InputsReaching(q) : \A j \in InputsReaching(q) : i <= j

Rank(name) == CHOOSE k \in 1..Len(NamesSorted) : NamesSorted[k] = name

\* p comes before q where a walk visits the entries of each directory in name
\* order
RECURSIVE WalkedBefore(_, _)
WalkedBefore(p, q) ==
  /\ p # <<>> /\ q # <<>>
  /\ IF p[1] = q[1] THEN WalkedBefore(Tail(p), Tail(q))
     ELSE p[1] \in Names /\ q[1] \in Names /\ Rank(p[1]) < Rank(q[1])

\* C33: expandInputPaths returns exactly the regular files reached from the
\* input paths whose extension is supported, each resolved path once, in the
\* order of the inputs and, below one input, in the name order of the
\* directory entries.
C33_ExactlySupportedFilesOnce ==
  conv.pc = "returned" =>
    /\ {conv.files[k] : k \in 1..Len(conv.files)} = SupportedReached
    /\ \A i, j \in 1..Len(conv.files) : i # j => conv.files[i] # conv.files[j]
    /\ \A i, j \in 1..Len(conv.files) :
         i < j =>
           \/ FirstInput(conv.files[i]) < FirstInput(conv.files[j])
           \/ /\ FirstInput(conv.files[i]) = FirstInput(conv.files[j])
              /\ WalkedBefore(conv.files[i], conv.files[j])

\* a directory and, written another way, a file below it were given; the
\* file is returned once, before the file of the subdirectory, and the text
\* file is not returned
C33_Witness ==
  /\ conv.pc = "returned"
  /\ request.inputPaths = << <<"d">>, <<"d", "nested", "..", "hero.png">> >>
  /\ request.tree[<<"d", "notes.txt">>] = "file"
  /\ request.tree[<<"d", "pack.gif">>] = "file"
  /\ conv.files = << <<"d", "hero.png">>, <<"d", "nested", "clip.MP4">>, <<"d", "pack.gif">> >>

\* ---- the batch driver of the command line (apps/cli/src/index.cjs) --------
\* Under SpecBatch `request` holds what main found and `conv` the state of
\* createBatchRunner and of main.  The driver calls enqueue once and never
\* cancel, cancelAll or setConcurrency, so no signal is aborted and the
\* worker, convertAssetWithFfmpeg, resolves or rejects with an ordinary Error.
BatchOutcomes == {"resolved", "rejectedError"}

\* settleIdleIfNeeded that does not look at activeByPath
settleIdleAlways(d) ==
  IF d.idleResolvers > 0
    THEN [d EXCEPT !.idleResolvers = 0, !.pc = "resumed"]
    ELSE d

\* settleIdleIfNeeded: resolving waitForIdle's promise lets main go on
settleIdleIfNeeded(d) ==
  IF d.activeByPath # {} THEN d
  ELSE IF d.idleResolvers > 0
    THEN [d EXCEPT !.idleResolvers = 0, !.pc = "resumed"]
    ELSE d

\* the listener of queue.onEvent; the progress percentages it keeps are only
\* printed
onQueueEvent(d, event) ==
  LET tracked == event.job \in d.filesById
      d1 == IF event.type \in {"done", "error", "canceled"} /\ tracked
              THEN [d EXCEPT !.activeByPath = @ \ {event.job},
                             !.filesById = @ \ {event.job}]
              ELSE d
  IN CASE event.type = "done" ->
            settleIdleIfNeeded([d1 EXCEPT !.doneCount = @ + 1])
       [] event.type = "error" ->
            settleIdleIfNeeded([d1 EXCEPT !.errorCount = @ + 1])
       [] event.type = "canceled" -> settleIdleIfNeeded(d1)
       [] event.type = "idle" -> settleIdleIfNeeded(d1)
       [] OTHER -> d

\* the listener called for each event of a step, in the order of emission
RECURSIVE listen(_, _)
listen(d, emitted) ==
  IF emitted = <<>> THEN d
  ELSE listen(onQueueEvent(d, emitted[1]), Tail(emitted))

CommitBatch(result) ==
  /\ CommitQueue(result)
  /\ conv' = listen(conv, result.events)
  /\ UNCHANGED <<request, child>>

\* main up to `await runner.waitForIdle()`: the expanded paths are distinct
\* supported files, each gets a random id, and all are enqueued in one call
InitBatch ==
  /\ request \in [files : 1..MaxJobs]
  /\ child = Unused
  /\ \E n \in SetInputs :
       \E q0 \in {[pending |-> <<>>, running |-> [i \in Ids |-> 0], canceled |-> {},
                   concurrency |-> InitialConcurrency(n), aborted |-> {}, events |-> <<>>,
                   hist |-> [j \in Jobs |-> <<>>], started |-> <<>>,
                   st |-> [j \in Jobs |-> "new"], jobId |-> [j \in Jobs |-> 0],
                   returned |-> <<>>, seen |-> <<>>]} :
         \E q \in {enqueue(WithFreshIds(q0, FreshItems(q0, request.files)),
                           FreshItems(q0, request.files))} :
           /\ pending = q.pending
           /\ running = q.running
           /\ canceled = q.canceled
           /\ concurrency = q.concurrency
           /\ aborted = q.aborted
           /\ events = q.events
           /\ hist = q.hist
           /\ started = q.started
           /\ st = q.st
           /\ jobId = q.jobId
           /\ conv = listen([pc |-> "waiting", doneCount |-> 0, errorCount |-> 0,
                             activeByPath |-> 1..request.files,
                             filesById |-> 1..request.files,
                             idleResolvers |-> 1, summary |-> <<>>, exitCode |-> 0],
                            q.events)

\* the pipeline of a running job reports progress
BatchProgress ==
  \E j \in Jobs :
    /\ st[j] = "running"
    /\ CommitBatch(Emit(Q, "progress", j))

\* the pipeline of a running job settles
BatchSettle ==
  \E j \in Jobs, outcome \in BatchOutcomes :
    /\ st[j] = "running"
    /\ CommitBatch(settle(Q, j, outcome))

BatchFinally ==
  \E j \in Jobs :
    /\ st[j] = "handled"
    /\ CommitBatch(finally(Q, j))

\* main after `await runner.waitForIdle()`: getSummary, the summary line and
\* process.exitCode
Summarize ==
  /\ conv.pc = "resumed"
  /\ conv' = [conv EXCEPT !.pc = "summarized",
                          !.summary = <<[doneCount |-> conv.doneCount,
                                         errorCount |-> conv.errorCount,
                                         total |-> request.files]>>,
                          !.exitCode = IF conv.errorCount > 0 THEN 1 ELSE 0]
  /\ UNCHANGED <<queueVars, request, child>>

NextBatch ==
  \/ BatchProgress
  \/ BatchSettle
  \/ BatchFinally
  \/ Summarize

SpecBatch == InitBatch /\ [][NextBatch]_vars

\* ---- C34 ----------------------------------------------------------------
\* the enqueued jobs whose terminal event is of the type
EndedWith(type) ==
  {j \in 1..request.files : \E k \in 1..Len(hist[j]) : hist[j][k] = type}

\* C34: the batch driver's summary is produced only when every enqueued job
\* has received its terminal event; it then has doneCount + errorCount equal
\* to the number of enqueued files, and the exit code is non-zero iff some job
\* emitted error.
C34_SummaryAfterAllTerminal ==
  conv.summary # <<>> =>
    /\ \A j \in 1..request.files : HasTerminal(Q, j)
    /\ conv.summary[1].doneCount = Cardinality(EndedWith("done"))
    /\ conv.summary[1].errorCount = Cardinality(EndedWith("error"))
    /\ conv.summary[1].doneCount + conv.summary[1].errorCount = request.files
    /\ conv.summary[1].total = request.files
    /\ (conv.exitCode # 0) <=> (EndedWith("error") # {})

\* three files, of which one failed, have been summarized
C34_Witness ==
  /\ conv.pc = "summarized"
  /\ request.files = 3
  /\ conv.summary = <<[doneCount |-> 2, errorCount |-> 1, total |-> 3]>>
  /\ conv.exitCode = 1
  /\ hist[2] = <<"queued", "start", "error">>

====
